---- MODULE Spec2Model ----
(***************************************************************************)
(* Model of src/main.py: the zip ingestion pipeline (process_zip) and its  *)
(* progress store (tables zips and files).                                 *)
(*                                                                         *)
(* Values.  A nullable column or a Python Optional is a sequence of length *)
(* 0 (NULL / None) or 1 (the value), as cursor.fetchone() returns None or  *)
(* a 1-tuple.  A text is a sequence of tokens, so that "" is <<>> and an   *)
(* f-string is a concatenation.  A path is a sequence of segments.         *)
(***************************************************************************)
EXTENDS Integers, Sequences, FiniteSets, TLC

\* ---------------------------------------------------------------- bounds
\* Number of times main() is run over the same bucket.
MaxPasses == 2

\* Number of times the database becomes unreachable.
MaxOutages == 1

\* ------------------------------------------------------------- constants
TRIES == 3
DELAY == 2
\* Faulty variant: no backoff.
BackoffOne == 2 - 1

BACKOFF == 2
MAX_WORKERS == 1

NULL == <<>>
Some(x) == <<x>>

\* Worker threads of the pool (main) and store sessions.
Workers == 1 .. MAX_WORKERS
Sessions == {1, 2}

\* The bucket: one monitored folder holding two archives.
z1 == <<"clientA", "z1.zip">>
z2 == <<"clientA", "z2.zip">>
zip_files == <<z1, z2>>
Archives == {z1, z2}
output_dir == "out"

\* zip_ref.namelist() of each archive; the two archives share one entry name.
namelist(s3_path) ==
  IF s3_path = z1 THEN <<"a.png", "sub/", "b.png">> ELSE <<"b.png">>

\* os.path.join(output_dir, extracted_file)
JoinPath(dir, name) == <<dir, name>>

\* os.path.isdir(file_path) after extractall: the directory entries.
IsDir(file_path) == file_path[2] = "sub/"

\* s3_path.split('/')[-1] and os.path.join(output_dir, filename)
DownloadPath(s3_path) == JoinPath(output_dir, s3_path[Len(s3_path)])

FilePaths == {JoinPath(output_dir, n) : n \in {"a.png", "sub/", "b.png"}}

\* What the external calls can return or raise.
Texts == {<<"seg">>}
OcrErrors == {<<>>}
FetchError == <<"S3 download failed">>
ExpandError == <<"cannot extract">>
StoreError == <<"store unavailable">>

\* Ids the SERIAL sequence of zips can hand out in the runs modelled.
MaxId == 2 * MaxPasses + 2

VARIABLES
  zips,       \* table zips: set of rows [id, file_path, status, error_data]
  files,      \* table files: set of rows [zips_id, file_path, ocr_text, error_data, status]
  nextZipId,  \* next value of the SERIAL sequence of zips.id
  pending,    \* uncommitted zips rows: [s |-> session, row |-> row]
  storeUp,    \* whether the database accepts connections and statements
  outages,    \* number of outages of the database so far
  disk,       \* local paths that exist (downloaded archives)
  pass,       \* number of main() runs started
  queue,      \* archives process_client_folder has still to dispatch
  returnedIds,\* per archive path: the ids insert_zip_record has returned for it
  proc,       \* per worker/session: the locals of the running call
  hist        \* per worker/session: what the running call has done so far

vars == <<zips, files, nextZipId, pending, storeUp, outages, disk, pass, queue,
          returnedIds, proc, hist>>

store == <<zips, files, nextZipId, pending>>

\* ------------------------------------------------------ the progress store
\* Faulty variant: no unique index on zips.file_path, so the INSERT never conflicts.
NoZipConflict(file_path) == FALSE

\* The arbiter of ON CONFLICT (file_path): the UNIQUE index of each table.
ZipConflict(file_path) == \E r \in zips : r.file_path = file_path

FileConflict(file_path) == \E r \in files : r.file_path = file_path

\* A statement on a path waits for another session's uncommitted row of it.
Blocked(s, file_path) ==
  \E q \in pending : q.s # s /\ q.row.file_path = file_path

\* SELECT status FROM zips WHERE file_path = %s; result and result[0] == "completed"
is_zip_processed(file_path) ==
  LET rows == {r \in zips : r.file_path = file_path}
  IN  rows # {} /\ (CHOOSE r \in rows : TRUE).status = Some("completed")

\* Faulty variant: the status is compared with a value no row holds.
is_file_processed_never(file_path) == FALSE

\* SELECT status FROM files WHERE file_path = %s; result and result[0] == "completed"
is_file_processed(file_path) ==
  LET rows == {r \in files : r.file_path = file_path}
  IN  rows # {} /\ (CHOOSE r \in rows : TRUE).status = Some("completed")

\* Faulty variant: on a conflict the row is replaced by the row of the INSERT,
\* whose error_data is null.
update_zip_status_replaces(file_path, status) ==
  /\ zips' = IF ZipConflict(file_path)
             THEN {IF r.file_path = file_path
                   THEN [r EXCEPT !.status = Some(status), !.error_data = NULL]
                   ELSE r : r \in zips}
             ELSE zips \cup {[id |-> nextZipId, file_path |-> file_path,
                              status |-> Some(status), error_data |-> NULL]}
  /\ nextZipId' = IF ZipConflict(file_path) THEN nextZipId ELSE nextZipId + 1
  /\ UNCHANGED <<files, pending>>

\* Faulty variant: storing 'completed' also resets error_data to null.
update_zip_status_clears(file_path, status) ==
  /\ zips' = IF ZipConflict(file_path)
             THEN {IF r.file_path = file_path
                   THEN [r EXCEPT !.status = Some(status),
                                  !.error_data = IF status = "completed" THEN NULL ELSE @]
                   ELSE r : r \in zips}
             ELSE zips \cup {[id |-> nextZipId, file_path |-> file_path,
                              status |-> Some(status), error_data |-> NULL]}
  /\ nextZipId' = IF ZipConflict(file_path) THEN nextZipId ELSE nextZipId + 1
  /\ UNCHANGED <<files, pending>>

\* Faulty variant: the conflict clause is DO NOTHING, the stored status stays.
update_zip_status_do_nothing(file_path, status) ==
  /\ zips' = IF ZipConflict(file_path)
             THEN zips
             ELSE zips \cup {[id |-> nextZipId, file_path |-> file_path,
                              status |-> Some(status), error_data |-> NULL]}
  /\ nextZipId' = IF ZipConflict(file_path) THEN nextZipId ELSE nextZipId + 1
  /\ UNCHANGED <<files, pending>>

\* INSERT INTO zips (file_path, status) ... DO UPDATE SET status = EXCLUDED.status
update_zip_status(file_path, status) ==
  /\ zips' = IF ZipConflict(file_path)
             THEN {IF r.file_path = file_path
                   THEN [r EXCEPT !.status = Some(status)] ELSE r : r \in zips}
             ELSE zips \cup {[id |-> nextZipId, file_path |-> file_path,
                              status |-> Some(status), error_data |-> NULL]}
  /\ nextZipId' = IF ZipConflict(file_path) THEN nextZipId ELSE nextZipId + 1
  /\ UNCHANGED <<files, pending>>

\* INSERT INTO zips (file_path, error_data) ... DO UPDATE SET error_data = EXCLUDED.error_data
update_file_error_data(file_path, error_data) ==
  /\ zips' = IF ZipConflict(file_path)
             THEN {IF r.file_path = file_path
                   THEN [r EXCEPT !.error_data = Some(error_data)] ELSE r : r \in zips}
             ELSE zips \cup {[id |-> nextZipId, file_path |-> file_path,
                              status |-> NULL, error_data |-> Some(error_data)]}
  /\ nextZipId' = IF ZipConflict(file_path) THEN nextZipId ELSE nextZipId + 1
  /\ UNCHANGED <<files, pending>>

\* zips_id INTEGER REFERENCES zips(id): checked for a row that is inserted.
ForeignKeyOk(zip_id, file_path) ==
  \/ FileConflict(file_path)
  \/ zip_id = NULL
  \/ \E r \in zips : Some(r.id) = zip_id

\* Faulty variant: error_data is missing from the SET list of the conflict clause.
insert_file_record_keeps_error(zip_id, file_path, ocr_text, status, error_data) ==
  /\ files' = IF FileConflict(file_path)
              THEN {IF r.file_path = file_path
                    THEN [r EXCEPT !.ocr_text = ocr_text, !.status = Some(status)]
                    ELSE r : r \in files}
              ELSE files \cup {[zips_id |-> zip_id, file_path |-> file_path,
                                ocr_text |-> ocr_text, status |-> Some(status),
                                error_data |-> error_data]}
  /\ UNCHANGED <<zips, nextZipId, pending>>

\* INSERT INTO files ... ON CONFLICT (file_path) DO UPDATE SET ocr_text, status, error_data
insert_file_record(zip_id, file_path, ocr_text, status, error_data) ==
  /\ files' = IF FileConflict(file_path)
              THEN {IF r.file_path = file_path
                    THEN [r EXCEPT !.ocr_text = ocr_text, !.status = Some(status),
                                   !.error_data = error_data]
                    ELSE r : r \in files}
              ELSE files \cup {[zips_id |-> zip_id, file_path |-> file_path,
                                ocr_text |-> ocr_text, status |-> Some(status),
                                error_data |-> error_data]}
  /\ UNCHANGED <<zips, nextZipId, pending>>

\* ------------------------------------------------------------ process state
\* The locals of process_zip (and of insert_zip_record inside it) before a call.
IdleProc ==
  [pc |-> "idle", caller |-> "none", s3_path |-> <<>>, zip_id |-> NULL, idx |-> 1,
   tries |-> TRIES, delay |-> DELAY, e |-> <<>>, ocr_text |-> NULL,
   error_message |-> <<>>]

\* What a run has done so far.  Observation only, but for raised: the exception
\* that leaves process_zip, which Return hands to process_client_folder.
IdleHist ==
  [fetchCalls |-> 0, sleeps |-> <<>>, written |-> <<>>, ocrCalls |-> {},
   ocrRaised |-> {}, visited |-> {}, fetched |-> FALSE, expanded |-> "no",
   storeFault |-> FALSE, statusFault |-> <<>>, regFault |-> FALSE, raised |-> FALSE,
   filesBefore |-> {}, returned |-> NULL, raced |-> FALSE, loopFault |-> FALSE,
   overlapped |-> FALSE,
   fileCalls |-> [f \in FilePaths |-> 0], lastFile |-> [f \in FilePaths |-> NULL]]

Init ==
  /\ zips = {}
  /\ files = {}
  /\ nextZipId = 1
  /\ pending = {}
  /\ storeUp = TRUE
  /\ outages = 0
  /\ disk = {}
  /\ pass = 0
  /\ queue = <<>>
  /\ returnedIds = [p \in Archives |-> {}]
  /\ proc = [w \in Sessions |-> IdleProc]
  /\ hist = [w \in Sessions |-> IdleHist]

\* file_path of the entry the per-file loop is at.
CurrentFile(w) == JoinPath(output_dir, namelist(proc[w].s3_path)[proc[w].idx])

\* f"OCR processing error for {file_path}: {e}"
OcrErrorMessage(file_path, e) ==
  <<"OCR processing error for ", file_path[1], "/", file_path[2], ": ">> \o e

\* An exception raised inside the try block of process_zip: the handler entered.
RaiseInTry(w, e) ==
  proc' = [proc EXCEPT ![w].pc = "h_err_status", ![w].e = e]

\* ------------------------------------------------------------- environment
\* The database becomes unreachable, or reachable again.
StoreDown ==
  /\ storeUp
  /\ outages < MaxOutages
  /\ storeUp' = FALSE
  /\ outages' = outages + 1
  /\ UNCHANGED <<store, disk, pass, queue, returnedIds, proc, hist>>

StoreBack ==
  /\ ~storeUp
  /\ storeUp' = TRUE
  /\ UNCHANGED <<store, outages, disk, pass, queue, returnedIds, proc, hist>>

\* --------------------------------------------------------------- scheduler
\* main(): one run of the program submits the monitored folder.
Main ==
  /\ pass < MaxPasses
  /\ queue = <<>>
  /\ \A w \in Workers : proc[w].pc = "idle"
  /\ pass' = pass + 1
  /\ queue' = zip_files
  /\ UNCHANGED <<store, storeUp, outages, disk, returnedIds, proc, hist>>

\* process_client_folder: the loop calls process_zip for the next archive.
Dispatch(w) ==
  /\ proc[w].pc = "idle"
  /\ queue # <<>>
  /\ proc' = [proc EXCEPT ![w] = [IdleProc EXCEPT !.pc = "set_downloading",
                                                 !.caller = "process_zip",
                                                 !.s3_path = Head(queue)]]
  /\ hist' = [hist EXCEPT ![w] = [IdleHist EXCEPT !.filesBefore = files]]
  /\ queue' = Tail(queue)
  /\ UNCHANGED <<store, storeUp, outages, disk, pass, returnedIds>>

\* -------------------------------------------------------------- process_zip
\* update_zip_status(s3_path, status) inside the try block: a failure of the
\* store raises into the generic handler.
StatusInTry(w, at, status, next) ==
  /\ proc[w].pc = at
  /\ proc[w].caller = "process_zip"
  /\ ~Blocked(w, proc[w].s3_path)
  /\ IF storeUp
     THEN /\ update_zip_status(proc[w].s3_path, status)
          /\ proc' = [proc EXCEPT ![w].pc = next]
          /\ hist' = [hist EXCEPT ![w].written = Append(@, status)]
     ELSE /\ RaiseInTry(w, StoreError)
          /\ hist' = [hist EXCEPT ![w].storeFault = TRUE,
                                  ![w].statusFault = Append(@, status)]
          /\ UNCHANGED store
  /\ UNCHANGED <<storeUp, outages, disk, pass, queue, returnedIds>>

\* line 190
SetDownloading(w) == StatusInTry(w, "set_downloading", "downloading", "fetch")

\* line 191 and the retry decorator of line 177: one attempt of the download.
FetchAttempt(w) ==
  /\ proc[w].pc = "fetch"
  /\ \E ok \in BOOLEAN :
       IF ok
       THEN /\ disk' = disk \cup {DownloadPath(proc[w].s3_path)}
            /\ proc' = [proc EXCEPT ![w].pc = "set_extracting",
                                    ![w].tries = TRIES, ![w].delay = DELAY]
            /\ hist' = [hist EXCEPT ![w].fetchCalls = @ + 1, ![w].fetched = TRUE]
       ELSE /\ disk' = disk
            /\ IF proc[w].tries - 1 = 0
               THEN /\ proc' = [proc EXCEPT ![w].pc = "h_err_status",
                                            ![w].tries = TRIES, ![w].delay = DELAY,
                                            ![w].e = FetchError]
                    /\ hist' = [hist EXCEPT ![w].fetchCalls = @ + 1]
               ELSE /\ proc' = [proc EXCEPT ![w].tries = @ - 1,
                                            ![w].delay = @ * BACKOFF]
                    /\ hist' = [hist EXCEPT ![w].fetchCalls = @ + 1,
                                            ![w].sleeps = Append(@, proc[w].delay)]
  /\ UNCHANGED <<store, storeUp, outages, pass, queue, returnedIds>>

\* line 194
SetExtracting(w) == StatusInTry(w, "set_extracting", "extracting", "expand")

\* Faulty variant: BadZipFile is caught by the generic clause.
BadZipAsGeneric == "h_err_status"

\* The handler a BadZipFile raised in the try block enters.
BadZipHandler == "h_bad_status"

\* lines 195-196: zipfile.ZipFile(download_path) and extractall.
Expand(w) ==
  /\ proc[w].pc = "expand"
  /\ \E res \in {"ok", "bad", "error"} :
       /\ proc' = [proc EXCEPT
            ![w].pc = IF res = "ok" THEN "reg_connect"
                      ELSE IF res = "bad" THEN BadZipHandler ELSE "h_err_status",
            ![w].e = IF res = "error" THEN ExpandError ELSE @]
       /\ hist' = [hist EXCEPT ![w].expanded = res]
  /\ UNCHANGED <<store, storeUp, outages, disk, pass, queue, returnedIds>>

\* ------------------------------------------------------- insert_zip_record
\* line 174: return zip_id[0] if zip_id else None, to process_zip (line 198)
\* or to a direct caller.
ReturnZipId(w, zip_id) ==
  /\ proc' = [proc EXCEPT ![w] = IF @.caller = "api" THEN IdleProc
                                 ELSE [@ EXCEPT !.pc = "loop", !.zip_id = zip_id]]
  /\ returnedIds' = IF zip_id = NULL THEN returnedIds
                    ELSE [returnedIds EXCEPT ![proc[w].s3_path] = @ \cup {zip_id[1]}]

\* line 156: get_db_connection() is outside the try of insert_zip_record.
RegConnect(w) ==
  /\ proc[w].pc = "reg_connect"
  /\ IF storeUp
     THEN /\ proc' = [proc EXCEPT ![w].pc = "reg_insert"]
          /\ hist' = hist
     ELSE /\ proc' = [proc EXCEPT ![w] = IF @.caller = "api" THEN IdleProc
                                         ELSE [@ EXCEPT !.pc = "h_err_status",
                                                        !.e = StoreError]]
          /\ hist' = [hist EXCEPT ![w].storeFault = TRUE, ![w].regFault = TRUE]
  /\ UNCHANGED <<store, storeUp, outages, disk, pass, queue, returnedIds>>

\* lines 160-165: INSERT ... ON CONFLICT (file_path) DO NOTHING RETURNING id.
\* A failure is caught at line 170 and zip_id stays None.
RegInsert(w) ==
  /\ proc[w].pc = "reg_insert"
  /\ ~Blocked(w, proc[w].s3_path)
  /\ IF ~storeUp
     THEN /\ ReturnZipId(w, NULL)
          /\ hist' = [hist EXCEPT ![w].storeFault = TRUE, ![w].regFault = TRUE,
                                  ![w].returned = NULL]
          /\ UNCHANGED store
     ELSE IF ZipConflict(proc[w].s3_path)
     THEN /\ proc' = [proc EXCEPT ![w].pc = "reg_select", ![w].zip_id = NULL]
          /\ UNCHANGED <<store, returnedIds, hist>>
     ELSE /\ nextZipId <= MaxId
          /\ pending' = pending \cup
               {[s |-> w, row |-> [id |-> nextZipId, file_path |-> proc[w].s3_path,
                                   status |-> Some("in_progress"),
                                   error_data |-> NULL]]}
          /\ nextZipId' = nextZipId + 1
          /\ proc' = [proc EXCEPT ![w].pc = "reg_commit",
                                  ![w].zip_id = Some(nextZipId)]
          /\ UNCHANGED <<zips, files, returnedIds, hist>>
  /\ UNCHANGED <<storeUp, outages, disk, pass, queue>>

\* lines 166-168: SELECT id FROM zips WHERE file_path = %s; fetchone().
RegSelect(w) ==
  /\ proc[w].pc = "reg_select"
  /\ IF ~storeUp
     THEN /\ ReturnZipId(w, NULL)
          /\ hist' = [hist EXCEPT ![w].storeFault = TRUE, ![w].regFault = TRUE,
                                  ![w].returned = NULL]
     ELSE /\ \E r \in {x \in zips : x.file_path = proc[w].s3_path} :
               proc' = [proc EXCEPT ![w].pc = "reg_commit", ![w].zip_id = Some(r.id)]
          /\ UNCHANGED <<returnedIds, hist>>
  /\ UNCHANGED <<store, storeUp, outages, disk, pass, queue>>

\* lines 169-174: conn.commit(); a failure is caught and the connection closed,
\* which rolls the INSERT back, and zip_id keeps what fetchone() returned.
RegCommit(w) ==
  /\ proc[w].pc = "reg_commit"
  /\ zips' = IF storeUp THEN zips \cup {q.row : q \in {x \in pending : x.s = w}}
             ELSE zips
  /\ pending' = {q \in pending : q.s # w}
  /\ ReturnZipId(w, proc[w].zip_id)
  /\ hist' = [hist EXCEPT ![w].storeFault = @ \/ ~storeUp,
                          ![w].regFault = @ \/ ~storeUp,
                          ![w].returned = proc[w].zip_id]
  /\ UNCHANGED <<files, nextZipId, storeUp, outages, disk, pass, queue>>

\* ------------------------------------------------------- the per-file loop
\* lines 201-212: the next entry of namelist(); directories and files already
\* 'completed' are skipped; after the last entry the with block is left.
LoopEntry(w) ==
  /\ proc[w].pc = "loop"
  /\ IF proc[w].idx > Len(namelist(proc[w].s3_path))
     THEN /\ proc' = [proc EXCEPT ![w].pc = "set_completed"]
          /\ hist' = hist
     ELSE IF IsDir(CurrentFile(w))
     THEN /\ proc' = [proc EXCEPT ![w].idx = @ + 1]
          /\ hist' = [hist EXCEPT ![w].visited = @ \cup {proc[w].idx}]
     ELSE IF ~storeUp
     THEN /\ RaiseInTry(w, StoreError)
          /\ hist' = [hist EXCEPT ![w].visited = @ \cup {proc[w].idx},
                                  ![w].storeFault = TRUE, ![w].loopFault = TRUE]
     ELSE IF is_file_processed(CurrentFile(w))
     THEN /\ proc' = [proc EXCEPT ![w].idx = @ + 1]
          /\ hist' = [hist EXCEPT ![w].visited = @ \cup {proc[w].idx}]
     ELSE /\ proc' = [proc EXCEPT ![w].pc = "ocr"]
          /\ hist' = [hist EXCEPT ![w].visited = @ \cup {proc[w].idx}]
  /\ UNCHANGED <<store, storeUp, outages, disk, pass, queue, returnedIds>>

\* line 216: perform_ocr(file_path) returns the text.
OcrReturns(w) ==
  /\ proc[w].pc = "ocr"
  /\ \E t \in Texts :
       proc' = [proc EXCEPT ![w].pc = "record_ok", ![w].ocr_text = Some(t)]
  /\ hist' = [hist EXCEPT ![w].ocrCalls = @ \cup {CurrentFile(w)}]
  /\ UNCHANGED <<store, storeUp, outages, disk, pass, queue, returnedIds>>

\* line 216 raising, caught at line 219; line 220 builds error_message.
OcrRaises(w) ==
  /\ proc[w].pc = "ocr"
  /\ \E e \in OcrErrors :
       proc' = [proc EXCEPT ![w].pc = "record_err",
                            ![w].error_message = OcrErrorMessage(CurrentFile(w), e)]
  /\ hist' = [hist EXCEPT ![w].ocrCalls = @ \cup {CurrentFile(w)},
                          ![w].ocrRaised = @ \cup {CurrentFile(w)}]
  /\ UNCHANGED <<store, storeUp, outages, disk, pass, queue, returnedIds>>

\* The exception insert_file_record raises, if any: <<>> when it succeeds.
FileWriteError(zip_id, file_path) ==
  IF ~storeUp THEN <<StoreError>>
  ELSE IF ~ForeignKeyOk(zip_id, file_path) THEN <<<<"foreign key violation">>>>
  ELSE <<>>

\* line 217: insert_file_record(zip_id, file_path, ocr_text, "completed"), inside
\* the inner try: a failure is caught at line 219 like a failure of perform_ocr.
RecordCompleted(w) ==
  /\ proc[w].pc = "record_ok"
  /\ LET err == FileWriteError(proc[w].zip_id, CurrentFile(w)) IN
     IF err = <<>>
     THEN /\ insert_file_record(proc[w].zip_id, CurrentFile(w), proc[w].ocr_text,
                                "completed", NULL)
          /\ proc' = [proc EXCEPT ![w].pc = "loop", ![w].idx = @ + 1,
                                  ![w].ocr_text = NULL]
          /\ hist' = hist
     ELSE /\ proc' = [proc EXCEPT ![w].pc = "record_err", ![w].ocr_text = NULL,
                         ![w].error_message = OcrErrorMessage(CurrentFile(w), err[1])]
          /\ hist' = [hist EXCEPT ![w].storeFault = @ \/ ~storeUp]
          /\ UNCHANGED store
  /\ UNCHANGED <<storeUp, outages, disk, pass, queue, returnedIds>>

\* Faulty variant: the loop is left after a file error.
AfterFileErrorBreak == "set_completed"

\* lines 219-222: after the except clause the for loop goes on.
AfterFileError == "loop"

\* Faulty variant: a failure of the write of line 222 is swallowed and the loop
\* goes on with the next entry.
RecordErrorSwallowed(w) ==
  /\ proc[w].pc = "record_err"
  /\ LET err == FileWriteError(proc[w].zip_id, CurrentFile(w)) IN
     IF err = <<>>
     THEN /\ insert_file_record(proc[w].zip_id, CurrentFile(w), NULL, "error",
                                Some(proc[w].error_message))
          /\ hist' = hist
     ELSE /\ hist' = [hist EXCEPT ![w].storeFault = @ \/ ~storeUp]
          /\ UNCHANGED store
  /\ proc' = [proc EXCEPT ![w].pc = AfterFileError, ![w].idx = @ + 1,
                          ![w].error_message = <<>>]
  /\ UNCHANGED <<storeUp, outages, disk, pass, queue, returnedIds>>

\* line 222: insert_file_record(zip_id, file_path, None, "error", error_message),
\* inside the except clause: a failure raises into the generic handler.
RecordError(w) ==
  /\ proc[w].pc = "record_err"
  /\ LET err == FileWriteError(proc[w].zip_id, CurrentFile(w)) IN
     IF err = <<>>
     THEN /\ insert_file_record(proc[w].zip_id, CurrentFile(w), NULL, "error",
                                Some(proc[w].error_message))
          /\ proc' = [proc EXCEPT ![w].pc = AfterFileError, ![w].idx = @ + 1,
                                  ![w].error_message = <<>>]
          /\ hist' = hist
     ELSE /\ RaiseInTry(w, err[1])
          /\ hist' = [hist EXCEPT ![w].storeFault = @ \/ ~storeUp,
                                  ![w].loopFault = TRUE]
          /\ UNCHANGED store
  /\ UNCHANGED <<storeUp, outages, disk, pass, queue, returnedIds>>

\* Faulty variant: the statement after the final status write raises.
SetCompletedThenRaises(w) ==
  StatusInTry(w, "set_completed", "completed", "h_err_status")

\* line 224
SetCompleted(w) == StatusInTry(w, "set_completed", "completed", "finally")

\* ------------------------------------------------------ handlers and finally
\* A store call inside an except clause: its failure leaves process_zip through
\* the finally clause, to the caller.
StatusInHandler(w, at, status, next) ==
  /\ proc[w].pc = at
  /\ ~Blocked(w, proc[w].s3_path)
  /\ IF storeUp
     THEN /\ update_zip_status(proc[w].s3_path, status)
          /\ proc' = [proc EXCEPT ![w].pc = next]
          /\ hist' = [hist EXCEPT ![w].written = Append(@, status)]
     ELSE /\ proc' = [proc EXCEPT ![w].pc = "finally"]
          /\ hist' = [hist EXCEPT ![w].storeFault = TRUE, ![w].raised = TRUE]
          /\ UNCHANGED store
  /\ UNCHANGED <<storeUp, outages, disk, pass, queue, returnedIds>>

ErrorInHandler(w, at, error_data) ==
  /\ proc[w].pc = at
  /\ ~Blocked(w, proc[w].s3_path)
  /\ IF storeUp
     THEN /\ update_file_error_data(proc[w].s3_path, error_data)
          /\ hist' = hist
     ELSE /\ hist' = [hist EXCEPT ![w].storeFault = TRUE, ![w].raised = TRUE]
          /\ UNCHANGED store
  /\ proc' = [proc EXCEPT ![w].pc = "finally"]
  /\ UNCHANGED <<storeUp, outages, disk, pass, queue, returnedIds>>

\* line 228
BadZipStatus(w) == StatusInHandler(w, "h_bad_status", "error_bad_zip", "h_bad_error")

\* Faulty variant: the bad-archive handler stores str(e) like the generic one.
BadZipErrorAsMessage(w) == ErrorInHandler(w, "h_bad_error", proc[w].e)

\* line 229
BadZipError(w) == ErrorInHandler(w, "h_bad_error", <<"bad_zip">>)

\* Faulty variant: the generic handler stores the message only, not the status.
ErrorStatusSkipped(w) ==
  /\ proc[w].pc = "h_err_status"
  /\ proc' = [proc EXCEPT ![w].pc = "h_err_error"]
  /\ UNCHANGED <<store, storeUp, outages, disk, pass, queue, returnedIds, hist>>

\* line 232
ErrorStatus(w) == StatusInHandler(w, "h_err_status", "error", "h_err_error")

\* line 233: str(e)
ErrorMessage(w) == ErrorInHandler(w, "h_err_error", proc[w].e)

\* Faulty variant: the removal is skipped when an except clause raised.
CleanupUnlessRaised(w) ==
  IF hist[w].raised THEN disk ELSE disk \ {DownloadPath(proc[w].s3_path)}

\* lines 235-236: what is left on disk after the finally clause.
Cleanup(w) == disk \ {DownloadPath(proc[w].s3_path)}

Finally(w) ==
  /\ proc[w].pc = "finally"
  /\ disk' = Cleanup(w)
  /\ proc' = [proc EXCEPT ![w].pc = "done"]
  /\ UNCHANGED <<store, storeUp, outages, pass, queue, returnedIds, hist>>

\* line 270: process_zip returns to the loop of process_client_folder, or its
\* exception ends that loop.
Return(w) ==
  /\ proc[w].pc = "done"
  /\ proc' = [proc EXCEPT ![w] = IdleProc]
  /\ queue' = IF hist[w].raised THEN <<>> ELSE queue
  /\ UNCHANGED <<store, storeUp, outages, disk, pass, returnedIds, hist>>

Step(w) ==
  \/ Dispatch(w)
  \/ SetDownloading(w)
  \/ FetchAttempt(w)
  \/ SetExtracting(w)
  \/ Expand(w)
  \/ RegConnect(w)
  \/ RegInsert(w)
  \/ RegSelect(w)
  \/ RegCommit(w)
  \/ LoopEntry(w)
  \/ OcrReturns(w)
  \/ OcrRaises(w)
  \/ RecordCompleted(w)
  \/ RecordError(w)
  \/ SetCompleted(w)
  \/ BadZipStatus(w)
  \/ BadZipError(w)
  \/ ErrorStatus(w)
  \/ ErrorMessage(w)
  \/ Finally(w)
  \/ Return(w)

Next == Main \/ StoreDown \/ StoreBack \/ \E w \in Workers : Step(w)

Spec == Init /\ [][Next]_vars

\* The program with the store available throughout.
NextUp == Main \/ \E w \in Workers : Step(w)

\* A worker thread that has a statement to execute executes it: each external
\* call returns or raises, and the thread is not suspended for ever.
SpecLive == Init /\ [][NextUp]_vars /\ WF_vars(\E w \in Workers : Step(w))

\* ------------------------------------------- direct calls of the store API
\* Arguments of the direct calls.
ApiStatuses == {"downloading", "completed"}
ApiErrors == {<<"bad_zip">>}
ApiFiles == {JoinPath(output_dir, "a.png"), JoinPath(output_dir, "b.png")}
ApiZipIds == {NULL, Some(1), Some(2)}
ApiTexts == {NULL, Some(<<"seg">>)}
ApiFileStatuses == {"completed", "error"}
ApiFileErrors == {NULL, Some(<<"boom">>)}

InRegister(s) == proc[s].pc \in {"reg_connect", "reg_insert", "reg_select", "reg_commit"}

\* A session calls insert_zip_record(file_path).
ApiRegister(s) ==
  /\ proc[s].pc = "idle"
  /\ \E p \in Archives :
       /\ proc' = [proc EXCEPT ![s] = [IdleProc EXCEPT !.pc = "reg_connect",
                                                      !.caller = "api",
                                                      !.s3_path = p]]
       /\ hist' = [hist EXCEPT ![s] = [IdleHist EXCEPT !.raced =
                     \E o \in Sessions \ {s} : InRegister(o) /\ proc[o].s3_path = p]]
  /\ UNCHANGED <<store, storeUp, outages, disk, pass, queue, returnedIds>>

\* A session calls update_zip_status(file_path, status).
ApiUpdateStatus(s) ==
  /\ proc[s].pc = "idle"
  /\ \E p \in Archives, st \in ApiStatuses :
       /\ ~Blocked(s, p)
       /\ update_zip_status(p, st)
  /\ UNCHANGED <<storeUp, outages, disk, pass, queue, returnedIds, proc, hist>>

\* A session calls update_file_error_data(file_path, error_data).
ApiUpdateError(s) ==
  /\ proc[s].pc = "idle"
  /\ \E p \in Archives, m \in ApiErrors :
       /\ ~Blocked(s, p)
       /\ update_file_error_data(p, m)
  /\ UNCHANGED <<storeUp, outages, disk, pass, queue, returnedIds, proc, hist>>

\* A session calls insert_file_record; a foreign key violation raises and
\* writes nothing.
ApiInsertFile(s) ==
  /\ proc[s].pc = "idle"
  /\ \E zid \in ApiZipIds, f \in ApiFiles, t \in ApiTexts,
        st \in ApiFileStatuses, m \in ApiFileErrors :
       /\ ForeignKeyOk(zid, f)
       /\ insert_file_record(zid, f, t, st, m)
       /\ hist' = [hist EXCEPT
            ![s].fileCalls[f] = IF @ < 2 THEN @ + 1 ELSE @,
            ![s].lastFile[f] = Some([zip_id |-> zid, ocr_text |-> t, status |-> st,
                                     error_data |-> m])]
  /\ UNCHANGED <<storeUp, outages, disk, pass, queue, returnedIds, proc>>

NextZips ==
  \E s \in Sessions :
    \/ ApiRegister(s)
    \/ RegConnect(s)
    \/ RegInsert(s)
    \/ RegSelect(s)
    \/ RegCommit(s)
    \/ ApiUpdateStatus(s)
    \/ ApiUpdateError(s)

\* Concurrent sessions calling the three upserts of zips.
SpecZips == Init /\ [][NextZips]_vars

\* A store in which both archives are registered.
InitFiles ==
  /\ zips = {[id |-> 1, file_path |-> z1, status |-> Some("completed"),
              error_data |-> NULL],
             [id |-> 2, file_path |-> z2, status |-> Some("error"),
              error_data |-> Some(FetchError)]}
  /\ files = {}
  /\ nextZipId = 3
  /\ pending = {}
  /\ storeUp = TRUE
  /\ outages = 0
  /\ disk = {}
  /\ pass = 0
  /\ queue = <<>>
  /\ returnedIds = [p \in Archives |-> {}]
  /\ proc = [w \in Sessions |-> IdleProc]
  /\ hist = [w \in Sessions |-> IdleHist]

NextFiles == \E s \in Workers : ApiInsertFile(s)

\* Calls of insert_file_record with any arguments.
SpecFiles == InitFiles /\ [][NextFiles]_vars

\* ------------------------------------- two runs of process_zip on one archive
\* The archive two workers process at the same time.
SharedArchive == z2

\* A worker calls process_zip(bucket_name, SharedArchive, output_dir), whatever
\* the other worker is doing; a run that shares any of its time with another
\* run is marked overlapped.
DispatchSame(w) ==
  /\ proc[w].pc = "idle"
  /\ proc' = [proc EXCEPT ![w] = [IdleProc EXCEPT !.pc = "set_downloading",
                                                 !.caller = "process_zip",
                                                 !.s3_path = SharedArchive]]
  /\ hist' = [o \in Sessions |->
               IF o = w
               THEN [IdleHist EXCEPT !.filesBefore = files,
                       !.overlapped = \E x \in Sessions \ {w} : proc[x].pc # "idle"]
               ELSE [hist[o] EXCEPT !.overlapped = @ \/ proc[o].pc # "idle"]]
  /\ UNCHANGED <<store, storeUp, outages, disk, pass, queue, returnedIds>>

NextSame ==
  \E w \in Sessions :
    \/ DispatchSame(w)
    \/ SetDownloading(w)
    \/ FetchAttempt(w)
    \/ SetExtracting(w)
    \/ Expand(w)
    \/ RegConnect(w)
    \/ RegInsert(w)
    \/ RegSelect(w)
    \/ RegCommit(w)
    \/ LoopEntry(w)
    \/ OcrReturns(w)
    \/ OcrRaises(w)
    \/ RecordCompleted(w)
    \/ RecordError(w)
    \/ SetCompleted(w)
    \/ BadZipStatus(w)
    \/ BadZipError(w)
    \/ ErrorStatus(w)
    \/ ErrorMessage(w)
    \/ Finally(w)
    \/ Return(w)

\* Two workers, each running process_zip on the same archive again and again,
\* with the store available.
SpecSame == Init /\ [][NextSame]_vars

\* ================================================================== claims
Entries(s3_path) ==
  {JoinPath(output_dir, namelist(s3_path)[i]) : i \in 1 .. Len(namelist(s3_path))}

FileEntries(s3_path) == {f \in Entries(s3_path) : ~IsDir(f)}

FileRows(f) == {r \in files : r.file_path = f}

ZipRows(p) == {r \in zips : r.file_path = p}

FileA == JoinPath(output_dir, "a.png")
FileB == JoinPath(output_dir, "b.png")

\* C1: in a finished run of process_zip in which the fetch and the expansion
\* succeeded and no store call failed, the loop has visited every entry, every
\* entry whose perform_ocr call raised has one File row of status 'error' with a
\* non-null, non-empty error_data, every other file entry has one File row of
\* status 'completed', the archive's status is 'completed' and process_zip did
\* not raise.
C1_PartialFailureTolerance ==
  \A w \in Workers :
    (/\ proc[w].pc = "done"
     /\ hist[w].fetched
     /\ hist[w].expanded = "ok"
     /\ ~hist[w].storeFault)
    => /\ proc[w].idx > Len(namelist(proc[w].s3_path))
       /\ hist[w].visited = 1 .. Len(namelist(proc[w].s3_path))
       /\ \A f \in FileEntries(proc[w].s3_path) :
            /\ Cardinality(FileRows(f)) = 1
            /\ \A r \in FileRows(f) :
                 IF f \in hist[w].ocrRaised
                 THEN /\ r.status = Some("error")
                      /\ r.error_data # NULL
                      /\ r.error_data[1] # <<>>
                 ELSE r.status = Some("completed")
       /\ ZipRows(proc[w].s3_path) # {}
       /\ \A r \in ZipRows(proc[w].s3_path) : r.status = Some("completed")
       /\ ~hist[w].raised

\* A finished run of z1 in which perform_ocr raised for a.png and returned for
\* b.png, the entry after it.
C1_Witness ==
  /\ proc[1].pc = "done"
  /\ proc[1].s3_path = z1
  /\ ~hist[1].storeFault
  /\ FileA \in hist[1].ocrRaised
  /\ FileB \in hist[1].ocrCalls \ hist[1].ocrRaised
  /\ \E r \in ZipRows(z1) : r.status = Some("completed")

\* C2 (as claimed): once an archive's stored status is 'completed', no step of
\* a later run changes it.
C2_CompletedArchiveStaysCompleted ==
  [][\A r \in zips :
       r.status = Some("completed")
       => \A q \in zips' : q.file_path = r.file_path => q.status = Some("completed")]_vars

\* C3: while the File row of a path has status 'completed', perform_ocr is not
\* invoked for that path and no step changes the row.
C3_SkipIfCompleted ==
  [][\A r \in files :
       r.status = Some("completed")
       => /\ r \in files'
          /\ \A w \in Workers :
               ~(proc[w].pc = "ocr" /\ CurrentFile(w) = r.file_path)
          /\ \A w \in Workers :
               ~(proc'[w].pc = "ocr" /\ CurrentFile(w)' = r.file_path)]_vars

\* A later run of z1 has reached a.png, found it 'completed' and gone on to
\* the next entry without calling perform_ocr.
C3_Witness ==
  /\ pass = 2
  /\ proc[1].pc = "loop"
  /\ proc[1].s3_path = z1
  /\ proc[1].idx = 2
  /\ hist[1].ocrCalls = {}
  /\ \E r \in FileRows(FileA) : r.status = Some("completed")

\* C4: when process_zip has returned or raised, download_path does not exist.
C4_CleanupGuarantee ==
  \A w \in Workers :
    proc[w].pc = "done" => DownloadPath(proc[w].s3_path) \notin disk

\* process_zip raised from an except clause after the archive was downloaded.
C4_Witness ==
  /\ proc[1].pc = "done"
  /\ hist[1].fetched
  /\ hist[1].raised

\* C5: once an attempt of the fetch has succeeded no further attempt is made;
\* when every attempt failed there were exactly 3 attempts, with sleeps of 2 and
\* then 4 between them, 'extracting' is not written in that run, and, if no
\* store call failed, the run ends with status 'error' and error_data the
\* message of the fetch failure.
C5_RetryExhaustion ==
  \A w \in Workers :
    /\ hist[w].fetched => proc[w].pc # "fetch"
    /\ (/\ proc[w].caller = "process_zip"
        /\ proc[w].pc \notin {"set_downloading", "fetch"}
        /\ ~hist[w].fetched
        /\ hist[w].fetchCalls > 0)
       => /\ hist[w].fetchCalls = 3
          /\ hist[w].sleeps = <<2, 4>>
          /\ \A i \in 1 .. Len(hist[w].written) : hist[w].written[i] # "extracting"
          /\ (proc[w].pc = "done" /\ ~hist[w].storeFault)
             => /\ ZipRows(proc[w].s3_path) # {}
                /\ \A r \in ZipRows(proc[w].s3_path) :
                     /\ r.status = Some("error")
                     /\ r.error_data = Some(FetchError)

\* A finished run whose three attempts all failed.
C5_Witness ==
  /\ proc[1].pc = "done"
  /\ ~hist[1].fetched
  /\ hist[1].fetchCalls = 3
  /\ ~hist[1].storeFault

\* C6: a finished run in which the expansion raised BadZipFile has not called
\* perform_ocr and has left the File rows as they were; if no store call
\* failed, the archive ends with status 'error_bad_zip' and error_data 'bad_zip'.
C6_BadArchiveIsolation ==
  \A w \in Workers :
    (proc[w].pc = "done" /\ hist[w].expanded = "bad")
    => /\ hist[w].ocrCalls = {}
       /\ files = hist[w].filesBefore
       /\ ~hist[w].storeFault
          => /\ ZipRows(proc[w].s3_path) # {}
             /\ \A r \in ZipRows(proc[w].s3_path) :
                  /\ r.status = Some("error_bad_zip")
                  /\ r.error_data = Some(<<"bad_zip">>)

\* A bad archive met in a run that started with File rows in the store.
C6_Witness ==
  /\ proc[1].pc = "done"
  /\ hist[1].expanded = "bad"
  /\ ~hist[1].storeFault
  /\ hist[1].filesBefore # {}

\* C7 (as claimed): after two insert_file_record calls for a path there is one
\* File row of the path and each of its fields is the second call's value.
C7_SecondWriteWins ==
  \A f \in ApiFiles :
    hist[1].fileCalls[f] = 2
    => /\ Cardinality(FileRows(f)) = 1
       /\ \A r \in FileRows(f) :
            /\ r.zips_id = hist[1].lastFile[f][1].zip_id
            /\ r.ocr_text = hist[1].lastFile[f][1].ocr_text
            /\ r.status = Some(hist[1].lastFile[f][1].status)
            /\ r.error_data = hist[1].lastFile[f][1].error_data

\* C8: zips never holds two rows of one path, and every id insert_zip_record
\* has returned for a path is the id of that path's row.
C8_ArchiveUniqueness ==
  /\ \A r \in zips : \A q \in zips : r.file_path = q.file_path => r = q
  /\ \A p \in Archives :
       /\ Cardinality(returnedIds[p]) <= 1
       /\ \A i \in returnedIds[p] : \E r \in ZipRows(p) : r.id = i

\* Two sessions were inside insert_zip_record for one path at the same time
\* and both have returned an id.
C8_Witness ==
  /\ hist[2].raced
  /\ hist[1].returned # NULL
  /\ hist[2].returned # NULL
  /\ proc[1].pc = "idle"
  /\ proc[2].pc = "idle"
  /\ \E p \in Archives : returnedIds[p] # {} /\ \A q \in Archives \ {p} : returnedIds[q] = {}

\* C9 (as claimed): after a failed update_zip_status in the try block the run
\* is not in the generic handler and process_zip does not raise.
C9_StatusFailureNonFatal ==
  \A w \in Workers :
    hist[w].statusFault # <<>>
    => /\ proc[w].pc \notin {"h_err_status", "h_err_error"}
       /\ ~hist[w].raised

\* C10 (as claimed): after a store failure inside insert_zip_record the run
\* calls perform_ocr for no entry and changes no File row.
C10_RegistrationFailureFatal ==
  \A w \in Workers :
    hist[w].regFault
    => /\ hist[w].ocrCalls = {}
       /\ files = hist[w].filesBefore

\* C11: a failure stays inside its archive.  Whatever fails while one archive is
\* processed, the return of process_zip leaves the archives not yet dispatched
\* in the list of process_client_folder, and a run changes no Archive record of
\* another archive.
C11_FailureStaysInsideArchive ==
  [][\A w \in Workers :
       /\ (proc[w].pc = "done" /\ proc'[w].pc = "idle") => queue' = queue
       /\ proc[w].pc # "idle" =>
            \A r \in zips : r.file_path # proc[w].s3_path => r \in zips']_vars

\* The elements of a sequence.
Range(seq) == {seq[i] : i \in 1 .. Len(seq)}

\* The statements of process_zip between line 195 and line 224: expansion,
\* registration and the per-file loop.
AfterExtracting ==
  {"expand", "reg_connect", "reg_insert", "reg_select", "reg_commit",
   "loop", "ocr", "record_ok", "record_err", "set_completed"}

\* C12: persist before work.  'downloading' is stored before the first fetch
\* attempt and 'extracting' before the archive is opened, so while a run is in
\* the fetch the stored status of its archive is 'downloading', and while it
\* expands the archive or is in the per-file loop it is 'extracting'.
C12_PersistBeforeWork ==
  \A w \in Workers :
    /\ hist[w].fetchCalls > 0 \/ proc[w].pc = "fetch"
         => "downloading" \in Range(hist[w].written)
    /\ hist[w].expanded # "no" \/ proc[w].pc \in AfterExtracting
         => "extracting" \in Range(hist[w].written)
    /\ proc[w].pc = "fetch"
         => {r.status : r \in ZipRows(proc[w].s3_path)} = {Some("downloading")}
    /\ proc[w].pc \in AfterExtracting
         => {r.status : r \in ZipRows(proc[w].s3_path)} = {Some("extracting")}

\* A second run of an archive has fetched at the third attempt and is about to
\* open the archive.
C12_Witness ==
  \E w \in Workers :
    /\ pass = 2
    /\ proc[w].pc = "expand"
    /\ hist[w].fetchCalls = TRIES
    /\ {r.status : r \in ZipRows(proc[w].s3_path)} = {Some("extracting")}

\* C13: in every store state the program reaches, a File record has a non-null
\* ocr_text exactly when its status is 'completed' and a non-null error_data
\* exactly when its status is 'error', also after a record has been rewritten.
C13_FileRecordFields ==
  \A r \in files :
    /\ r.ocr_text # NULL <=> r.status = Some("completed")
    /\ r.error_data # NULL <=> r.status = Some("error")

\* A run has rewritten a File record from 'error' to 'completed'.
C13_Witness ==
  \E w \in Workers :
    /\ \E r \in hist[w].filesBefore :
         r.file_path = FileA /\ r.status = Some("error") /\ r.error_data # NULL
    /\ \E r \in files :
         r.file_path = FileA /\ r.status = Some("completed") /\ r.ocr_text # NULL

\* C14: referential integrity at write.  Every File record a run of process_zip
\* writes carries a non-null owning archive id, and that id is the id of the
\* Archive row of the archive the run is processing.
C14_OwnerAtWrite ==
  [][\A w \in Workers :
       \A r \in files' \ files :
         /\ r.zips_id # NULL
         /\ \E z \in zips : /\ z.file_path = proc[w].s3_path
                            /\ Some(z.id) = r.zips_id]_vars

\* The statuses process_zip writes (lines 190, 194, 224, 228, 232).
ArchiveStatuses == {"downloading", "extracting", "completed", "error", "error_bad_zip"}

TerminalStatuses == {"completed", "error", "error_bad_zip"}

\* The sequences of writes the claim allows: the prefixes of
\* downloading -> extracting -> completed and its three exits.
StatusPaths ==
  {<<>>, <<"downloading">>, <<"downloading", "extracting">>,
   <<"downloading", "extracting", "completed">>,
   <<"downloading", "error">>,
   <<"downloading", "extracting", "error">>,
   <<"downloading", "extracting", "error_bad_zip">>}

\* C15: in a run in which no store call failed, the statuses written so far form
\* one of the allowed paths; 'error_bad_zip' is written only after a fetch that
\* succeeded; a finished run has written exactly one terminal status, as its
\* last write; and the stored status of every archive is one of the five values,
\* never 'in_progress' and never null.
C15_StatusTransitions ==
  /\ \A w \in Workers :
       ~hist[w].storeFault =>
         /\ hist[w].written \in StatusPaths
         /\ "error_bad_zip" \in Range(hist[w].written) => hist[w].fetched
         /\ proc[w].pc = "done" =>
              /\ hist[w].written # <<>>
              /\ hist[w].written[Len(hist[w].written)] \in TerminalStatuses
              /\ Cardinality({i \in 1 .. Len(hist[w].written) :
                               hist[w].written[i] \in TerminalStatuses}) = 1
  /\ \A r \in zips : r.status \in {Some(st) : st \in ArchiveStatuses}

\* A run has left the path at 'extracting' through the generic handler.
C15_Witness ==
  \E w \in Workers :
    /\ proc[w].pc = "done"
    /\ ~hist[w].storeFault
    /\ hist[w].written = <<"downloading", "extracting", "error">>
    /\ {r.status : r \in ZipRows(proc[w].s3_path)} = {Some("error")}

\* Every non-directory entry of the archive of worker w has a File record of
\* status 'completed' or 'error'.
AllEntriesRecorded(w) ==
  \A f \in FileEntries(proc[w].s3_path) :
    \E r \in FileRows(f) : r.status \in {Some("completed"), Some("error")}

\* The stored status of the archive of worker w is st.
StoredStatusIs(w, st) == {r.status : r \in ZipRows(proc[w].s3_path)} = {Some(st)}

\* C16 as stated: when a run has written 'completed', every non-directory entry
\* of its archive has a File record of status 'completed' or 'error'; and when a
\* store call of the per-file loop has failed and raised, the loop is left, and
\* the finished run has stored 'error' and not 'completed'.
C16_CompletedMeansAttempted ==
  \A w \in Workers :
    /\ proc[w].pc \in {"finally", "done"} /\ "completed" \in Range(hist[w].written)
         => AllEntriesRecorded(w)
    /\ hist[w].loopFault /\ proc[w].pc # "idle"
         => /\ proc[w].pc \in {"h_err_status", "h_err_error", "finally", "done"}
            /\ "completed" \notin Range(hist[w].written)
            /\ proc[w].pc = "done" => StoredStatusIs(w, "error")

\* C16, amended: as above, but the finished run has stored 'error' only if the
\* handler's own status write succeeded; if that write fails too, process_zip
\* raises and the stored status stays 'extracting'.  'completed' is written in
\* neither case.
C16_CompletedMeansAttemptedAmended ==
  \A w \in Workers :
    /\ proc[w].pc \in {"finally", "done"} /\ "completed" \in Range(hist[w].written)
         => AllEntriesRecorded(w)
    /\ hist[w].loopFault /\ proc[w].pc # "idle"
         => /\ proc[w].pc \in {"h_err_status", "h_err_error", "finally", "done"}
            /\ "completed" \notin Range(hist[w].written)
            /\ proc[w].pc = "done" =>
                 IF "error" \in Range(hist[w].written)
                 THEN StoredStatusIs(w, "error")
                 ELSE hist[w].raised /\ StoredStatusIs(w, "extracting")

\* A store call of the loop failed, an entry of the archive has no record, and
\* the finished run stored 'error'.
C16_Witness ==
  \E w \in Workers :
    /\ proc[w].pc = "done"
    /\ hist[w].loopFault
    /\ ~AllEntriesRecorded(w)
    /\ FileRows(FileA) # {}
    /\ StoredStatusIs(w, "error")

\* C17: frame of the three upserts of zips.  On the rows that exist,
\* update_zip_status leaves id and error_data, update_file_error_data leaves id
\* and status, and insert_zip_record leaves the whole row; a call changes at
\* most one Archive row and no File record.
C17_UpsertFrame ==
  [][/\ files' = files
     /\ Cardinality(zips \ zips') <= 1
     /\ \A s \in Sessions :
          /\ ApiUpdateStatus(s) =>
               \A r \in zips : \E q \in zips' :
                 /\ q.file_path = r.file_path
                 /\ q.id = r.id
                 /\ q.error_data = r.error_data
          /\ ApiUpdateError(s) =>
               \A r \in zips : \E q \in zips' :
                 /\ q.file_path = r.file_path
                 /\ q.id = r.id
                 /\ q.status = r.status
          /\ InRegister(s) /\ proc'[s] # proc[s] => zips \subseteq zips']_vars

\* A row that update_zip_status and update_file_error_data have both written and
\* whose id insert_zip_record has returned to both sessions.
C17_Witness ==
  \E r \in zips :
    /\ r.status = Some("completed")
    /\ r.error_data = Some(<<"bad_zip">>)
    /\ \A s \in Sessions : hist[s].returned = Some(r.id)

\* The last status the run of worker w has written.
LastWritten(w) == hist[w].written[Len(hist[w].written)]

\* The stored error_data of the archive of worker w is m.
StoredErrorIs(w, m) == {r.error_data : r \in ZipRows(proc[w].s3_path)} = {Some(m)}

\* C18, single writer: a finished run that shared no time with another run of
\* its archive and ended with 'error_bad_zip' has left error_data 'bad_zip', and
\* one that ended with 'error' has left error_data the message of its own
\* exception.
C18_StatusErrorConsistency ==
  \A w \in Sessions :
    proc[w].pc = "done" /\ ~hist[w].overlapped /\ ~hist[w].storeFault =>
      /\ LastWritten(w) = "error_bad_zip" =>
           StoredStatusIs(w, "error_bad_zip") /\ StoredErrorIs(w, <<"bad_zip">>)
      /\ LastWritten(w) = "error" =>
           StoredStatusIs(w, "error") /\ StoredErrorIs(w, proc[w].e)

\* C18, the race: two interleaved runs of the same archive have finished, one
\* with 'error' and one with 'error_bad_zip', and the row holds the status of
\* the first with the error_data of the second.
C18_Witness ==
  /\ proc[1].pc = "done" /\ proc[2].pc = "done"
  /\ proc[1].s3_path = proc[2].s3_path
  /\ hist[1].overlapped /\ hist[2].overlapped
  /\ LastWritten(1) = "error" /\ LastWritten(2) = "error_bad_zip"
  /\ proc[1].e # <<"bad_zip">>
  /\ StoredStatusIs(1, "error")
  /\ StoredErrorIs(1, <<"bad_zip">>)

\* C19: with the store available and every external call returning or raising,
\* every run of process_zip that has started finishes, and whenever a run has
\* finished the stored status of its archive is 'completed', 'error' or
\* 'error_bad_zip', never 'downloading' or 'extracting'.
C19_ReachesTerminalStatus ==
  /\ [](\A w \in Workers :
          proc[w].pc = "done" =>
            /\ ZipRows(proc[w].s3_path) # {}
            /\ \A r \in ZipRows(proc[w].s3_path) :
                 r.status \in {Some(st) : st \in TerminalStatuses})
  /\ \A w \in Workers : (proc[w].pc # "idle") ~> (proc[w].pc = "done")

\* A run that needed every fetch attempt has finished with 'completed'.
C19_Witness ==
  \E w \in Workers :
    /\ proc[w].pc = "done"
    /\ hist[w].fetchCalls = TRIES
    /\ StoredStatusIs(w, "completed")

\* C20: the error_data of an Archive row is never cleared.  No step sets a
\* non-null error_data to null, and no step other than the handlers' calls of
\* update_file_error_data changes it, so a successful run leaves the error_data
\* an earlier failed run has stored.
C20_ErrorDataNeverCleared ==
  [][\A r \in zips : \E q \in zips' :
       /\ q.file_path = r.file_path
       /\ r.error_data # NULL => q.error_data # NULL
       /\ (\A w \in Workers : proc[w].pc \notin {"h_bad_error", "h_err_error"})
            => q.error_data = r.error_data]_vars

\* A successful run of an archive has finished, and the row still holds the
\* error_data of the failed run of the pass before.
C20_Witness ==
  \E w \in Workers :
    /\ pass = 2
    /\ proc[w].pc = "done"
    /\ hist[w].written = <<"downloading", "extracting", "completed">>
    /\ StoredStatusIs(w, "completed")
    /\ \E r \in ZipRows(proc[w].s3_path) : r.error_data # NULL

====
